---------------------------- MODULE Spec2Model ----------------------------
(***************************************************************************)
(* A model of syncit.py: a one-directional mirror of a remote tree that is *)
(* served as HTML directory listings onto a local directory.               *)
(*                                                                         *)
(* Strings (anchor texts, hrefs, URLs, ignore patterns) are sequences of   *)
(* one-character strings, so that str.lower, `in`, startswith, endswith    *)
(* and urljoin are computed character by character.  A local path is a     *)
(* sequence of components, as pathlib keeps it.  A node of the object tree *)
(* is named by the sequence of children keys that leads to it from the     *)
(* root Dir (<<>> is the root).                                            *)
(***************************************************************************)
EXTENDS Integers, Sequences, FiniteSets, TLC

VARIABLES
    pc,       \* where the caller of the root Dir's update() stands
    args,     \* the arguments: [url, path, loop, ignore]
    tree,     \* node name -> the File or Dir object
    stack,    \* the Dir.update() activations, outermost first: [node, i]
    fs,       \* local filesystem: path -> [kind, data]
    remote,   \* <<method, url>> -> the response the server gives to it
    log,      \* what the current pass did, in order (calls, requests, fs)
    passes,   \* how many times the root's update() was entered
    sleeps,   \* how many time.sleep(loop) calls have returned
    served,   \* how much the server has answered anew (see Cost)
    changed,  \* the remote changed since the current/last pass began
    steady    \* how the current pass began: [same, sized] (see Update)

vars == <<pc, args, tree, stack, fs, remote, log, passes, sleeps, served, changed, steady>>

-----------------------------------------------------------------------------
(* Bounds of the model. *)

\* longest listing page, in anchors
MaxLinks == 3
\* the responses and anchors the server may produce anew in one run
MaxServed == 7
\* calls of the root's update() by a caller that keeps the tree
MaxPasses == 2
\* sleeps of the polling loop that are followed
MaxSleeps == 2

-----------------------------------------------------------------------------
(* Strings. *)

Uppers == <<"A","B","C","D","E","F","G","H","I","J","K","L","M",
            "N","O","P","Q","R","S","T","U","V","W","X","Y","Z">>
Lowers == <<"a","b","c","d","e","f","g","h","i","j","k","l","m",
            "n","o","p","q","r","s","t","u","v","w","x","y","z">>

LowerChar(c) ==
    IF \E i \in 1..Len(Uppers) : Uppers[i] = c
    THEN Lowers[CHOOSE i \in 1..Len(Uppers) : Uppers[i] = c]
    ELSE c

\* str.lower()
Lower(s) == [i \in 1..Len(s) |-> LowerChar(s[i])]

\* s.startswith(p)
StartsWith(s, p) == Len(p) <= Len(s) /\ SubSeq(s, 1, Len(p)) = p

\* s.endswith(p)
EndsWith(s, p) ==
    Len(p) <= Len(s) /\ SubSeq(s, Len(s) - Len(p) + 1, Len(s)) = p

\* p in s
Contains(s, p) ==
    \E k \in 0..Len(s) :
        k + Len(p) <= Len(s) /\ SubSeq(s, k + 1, k + Len(p)) = p

\* urllib.parse.urljoin(base, href) for a relative href without scheme,
\* leading slash, dot segments or query: the base up to its last "/",
\* then the href.
UrlJoin(base, href) ==
    LET slashes == {k \in 1..Len(base) : base[k] = "/"}
        last == IF slashes = {} THEN 0
                ELSE CHOOSE k \in slashes : \A j \in slashes : j <= k
    IN SubSeq(base, 1, last) \o href

\* the components of a relative path string: the pieces between "/",
\* empty pieces dropped (pathlib collapses "//" and a trailing "/")
RECURSIVE Parts(_)
Parts(s) ==
    IF s = <<>> THEN <<>>
    ELSE LET slashes == {k \in 1..Len(s) : s[k] = "/"}
             cut == IF slashes = {} THEN Len(s) + 1
                    ELSE CHOOSE k \in slashes : \A j \in slashes : k <= j
             head == SubSeq(s, 1, cut - 1)
             rest == Parts(SubSeq(s, cut + 1, Len(s)))
         IN IF head = <<>> THEN rest ELSE <<head>> \o rest

\* pathlib: path / text, for a text that does not start with "/"
PathJoin(path, text) == path \o Parts(text)


-----------------------------------------------------------------------------
(* The inputs the model draws from. *)

\* sync(url, path, ...): the served directory and the local mirror root
RootUrl == <<"u", "/">>
RootPath == << <<"m">> >>

\* sync(..., ignore): lists of patterns, as given (not yet lower-cased)
IgnoreArgs == { << <<"T">> >> }

\* the anchors of a listing page: [text, href].  "xT" holds the pattern
\* in another case and not at its start; "..T" starts as a parent-directory
\* link does and holds the pattern too; text "a" occurs with two hrefs;
\* "d" and "d/" are a file and a directory with one local path.
Links ==
    { [text |-> <<"a">>, href |-> <<"a">>],
      [text |-> <<"a">>, href |-> <<"b">>],
      [text |-> <<"x", "T">>, href |-> <<"x", "T">>],
      [text |-> <<"d">>, href |-> <<"d">>],
      [text |-> <<"d", "/">>, href |-> <<"d", "/">>],
      [text |-> <<".", ".", "T">>, href |-> <<".", ".", "T">>] }

\* sequences over S of length at most n
RECURSIVE SeqsUpTo(_, _)
SeqsUpTo(S, n) ==
    IF n = 0 THEN {<<>>}
    ELSE LET shorter == SeqsUpTo(S, n - 1)
         IN shorter \cup {Append(s, x) : s \in {t \in shorter : Len(t) = n - 1}, x \in S}

\* the values of a Content-Length header; <<>> is a response without one
ContentLengths == {<<>>, <<1>>, <<2>>}

\* the bodies a file URL may serve
Bodies == { <<"x">>, <<"y", "y">> }

\* what st_size may report for a directory (it depends on the platform)
DirSizes == {0, 2}

NoResponse == [got |-> FALSE]

\* responses to HEAD url
HeadResponses == {NoResponse} \cup {[got |-> TRUE, clen |-> c] : c \in ContentLengths}

\* responses to GET url of a File
FileResponses ==
    {NoResponse, [got |-> TRUE, code |-> 404, body |-> <<>>]}
        \cup {[got |-> TRUE, code |-> 200, body |-> b] : b \in Bodies}

\* responses to GET url of a Dir
PageResponses ==
    {NoResponse, [got |-> TRUE, code |-> 404, links |-> <<>>]}
        \cup {[got |-> TRUE, code |-> 200, links |-> l] : l \in SeqsUpTo(Links, MaxLinks)}

\* what a new response takes of MaxServed: one, and one per anchor
Cost(resp) ==
    IF "links" \in DOMAIN resp THEN 1 + Len(resp.links) ELSE 1

\* the response to a request: the one the server already gave since the
\* remote last changed, or else any response that MaxServed still allows
Answers(req, fresh, used) ==
    IF req \in DOMAIN remote THEN {remote[req]}
    ELSE {r \in fresh : used + Cost(r) <= MaxServed}

\* what is served once resp has answered req
Spent(req, resp, used) ==
    IF req \in DOMAIN remote THEN used ELSE used + Cost(resp)

Learn(m, req, resp) ==
    [r \in DOMAIN m \cup {req} |-> IF r = req THEN resp ELSE m[r]]

-----------------------------------------------------------------------------
(* The local filesystem. *)

Parent(p) == SubSeq(p, 1, Len(p) - 1)

\* Path.exists()
Exists(f, p) == p \in DOMAIN f

IsDirOrFile(f, p) == p = <<>> \/ p \in DOMAIN f

\* the working directory <<>> is a directory
IsDir(f, p) == p = <<>> \/ (p \in DOMAIN f /\ f[p].kind = "dir")

\* the values Path.stat().st_size may give
StSizes(f, p) == IF f[p].kind = "dir" THEN DirSizes ELSE {Len(f[p].data)}

\* os.makedirs succeeds: no component of the path is a file
MkdirOk(f, p) ==
    \A k \in 1..Len(p) : Exists(f, SubSeq(p, 1, k)) => IsDir(f, SubSeq(p, 1, k))

\* mkdir_p(path): the directory and its missing parents
mkdir_p(f, p) ==
    LET made == {SubSeq(p, 1, k) : k \in 1..Len(p)} \ DOMAIN f
    IN [q \in DOMAIN f \cup made |->
            IF q \in DOMAIN f THEN f[q] ELSE [kind |-> "dir", data |-> <<>>]]

\* Path.write_bytes succeeds: the parent is a directory, the path is not one
WriteOk(f, p) == IsDir(f, Parent(p)) /\ ~(Exists(f, p) /\ f[p].kind = "dir")

write_bytes(f, p, data) ==
    [q \in DOMAIN f \cup {p} |->
        IF q = p THEN [kind |-> "file", data |-> data] ELSE f[q]]

EmptyFs == [q \in {} |-> [kind |-> "dir", data |-> <<>>]]

\* the local filesystems a run may start from: the mirror root missing,
\* an empty directory, a directory that already holds a one-byte file "a",
\* or a regular file
StartFs ==
    { EmptyFs,
      mkdir_p(EmptyFs, RootPath),
      write_bytes(mkdir_p(EmptyFs, RootPath), PathJoin(RootPath, <<"a">>), <<"x">>),
      write_bytes(EmptyFs, RootPath, <<"x">>) }

-----------------------------------------------------------------------------
(* The objects. *)

\* File.__init__
FileInit(url, path) ==
    [kind |-> "File", url |-> url, path |-> path, status |-> "pending"]

\* Dir.__init__: the patterns are lower-cased, the children start empty
DirInit(url, path, ignore) ==
    [kind |-> "Dir", url |-> url, path |-> path,
     ignore |-> [i \in 1..Len(ignore) |-> Lower(ignore[i])],
     status |-> "pending", children |-> <<>>]

Range(s) == {s[i] : i \in 1..Len(s)}

ShouldIgnoreCased(text, ignore) ==
    \E i \in 1..Len(ignore) : Contains(text, ignore[i])

\* Dir.update, the inner loop: some pattern is in the lower-cased text
ShouldIgnore(text, ignore) ==
    \E i \in 1..Len(ignore) : Contains(Lower(text), ignore[i])

\* Dir.update, the anchor is a parent-directory link
IsParentLink(text) == StartsWith(text, <<".", ".">>)

\* Dir.update, the object built for an anchor that is not yet a child
NewChild(d, link) ==
    IF EndsWith(link.text, <<"/">>)
    THEN DirInit(UrlJoin(d.url, link.href), PathJoin(d.path, link.text), d.ignore)
    ELSE FileInit(UrlJoin(d.url, link.href), PathJoin(d.path, link.text))

\* the loop with `continue` where the code has its second `break`
RECURSIVE ProcessTreeSkip(_, _, _, _)
ProcessTreeSkip(d, links, keys, news) ==
    IF links = <<>> THEN [keys |-> keys, news |-> news]
    ELSE LET link == Head(links)
         IN IF IsParentLink(link.text) \/ ShouldIgnore(link.text, d.ignore)
                \/ link.text \in Range(keys)
            THEN ProcessTreeSkip(d, Tail(links), keys, news)
            ELSE ProcessTreeSkip(d, Tail(links), Append(keys, link.text),
                                 Append(news, [key |-> link.text, obj |-> NewChild(d, link)]))

\* the loop with the patterns tried before the test for ".."
RECURSIVE ProcessTreeIgnoreFirst(_, _, _, _)
ProcessTreeIgnoreFirst(d, links, keys, news) ==
    IF links = <<>> THEN [keys |-> keys, news |-> news]
    ELSE LET link == Head(links)
         IN IF ShouldIgnore(link.text, d.ignore)
            THEN [keys |-> keys, news |-> news]
            ELSE IF IsParentLink(link.text) \/ link.text \in Range(keys)
            THEN ProcessTreeIgnoreFirst(d, Tail(links), keys, news)
            ELSE ProcessTreeIgnoreFirst(d, Tail(links), Append(keys, link.text),
                                        Append(news, [key |-> link.text, obj |-> NewChild(d, link)]))

\* the loop without `if obj is None`: an object is built for every anchor
RECURSIVE ProcessTreeRenew(_, _, _, _)
ProcessTreeRenew(d, links, keys, news) ==
    IF links = <<>> THEN [keys |-> keys, news |-> news]
    ELSE LET link == Head(links)
             built == [key |-> link.text, obj |-> NewChild(d, link)]
             others == SelectSeq(news, LAMBDA b : b.key # link.text)
         IN IF IsParentLink(link.text)
            THEN ProcessTreeRenew(d, Tail(links), keys, news)
            ELSE IF ShouldIgnore(link.text, d.ignore)
            THEN [keys |-> keys, news |-> news]
            ELSE IF link.text \in Range(keys)
            THEN ProcessTreeRenew(d, Tail(links), keys, Append(others, built))
            ELSE ProcessTreeRenew(d, Tail(links), Append(keys, link.text),
                                  Append(others, built))

\* Dir.update, the loop over the anchors of Dir d's page: keys are the
\* children's names in insertion order, news the [key, obj] pairs built here
RECURSIVE ProcessTree(_, _, _, _)
ProcessTree(d, links, keys, news) ==
    IF links = <<>> THEN [keys |-> keys, news |-> news]
    ELSE LET link == Head(links)
         IN IF IsParentLink(link.text)
            THEN ProcessTree(d, Tail(links), keys, news)
            ELSE IF ShouldIgnore(link.text, d.ignore)
            THEN [keys |-> keys, news |-> news]
            ELSE IF link.text \in Range(keys)
            THEN ProcessTree(d, Tail(links), keys, news)
            ELSE ProcessTree(d, Tail(links), Append(keys, link.text),
                             Append(news, [key |-> link.text, obj |-> NewChild(d, link)]))

Event(ev, at) == [ev |-> ev, at |-> at]
Called(n) == [ev |-> "update", node |-> n]
Raised(exc) == [ev |-> "raise", exc |-> exc]

Top == stack[Len(stack)]

\* the node whose update() is called next, as a set: the root when the
\* caller is at its call, else the child the innermost Dir's loop has reached
Callee ==
    IF pc = "call" THEN {<<>>}
    ELSE IF pc = "run" /\ Top.i <= Len(tree[Top.node].children)
    THEN {Append(Top.node, tree[Top.node].children[Top.i])}
    ELSE {}

\* the stack once the callee's update() has returned to its caller
Resume ==
    IF stack = <<>> THEN stack
    ELSE [stack EXCEPT ![Len(stack)].i = @ + 1]

\* an exception leaves every activation of update() and reaches the caller
Raise(exc, events) ==
    /\ pc' = "raised"
    /\ stack' = <<>>
    /\ log' = log \o events \o <<Raised(exc)>>

AllUpdated == \A n \in DOMAIN tree : tree[n].status = "updated"

-----------------------------------------------------------------------------
(* File.update and Dir.update. *)

SetStatus(n, status) == [tree EXCEPT ![n].status = status]

CurrentNever(f, p, size) == {FALSE}

CurrentSmaller(f, p, size) ==
    IF Exists(f, p) THEN {sz < size : sz \in StSizes(f, p)} ELSE {FALSE}

\* File.update: the local file exists and has the remote's size; a set,
\* as a directory's st_size is one of several
Current(f, p, size) ==
    IF Exists(f, p) THEN {sz = size : sz \in StSizes(f, p)} ELSE {FALSE}

GetAlwaysOk(r) == TRUE

\* File.update: the GET's status is 200
GetOk(r) == r.code = 200

PageAlwaysOk(r) == TRUE

\* Dir.update: the listing GET's status is 200
PageOk(r) == r.code = 200

\* File.update(), whole: HEAD, the size comparison, GET, the write
FileUpdate(n) ==
    /\ n \in Callee
    /\ tree[n].kind = "File"
    /\ LET f == tree[n]
           head == <<"HEAD", f.url>>
           get == <<"GET", f.url>>
           heard == <<Called(n), Event("HEAD", f.url)>>
           got == heard \o <<Event("GET", f.url)>>
       IN \E h \in Answers(head, HeadResponses, served) :
            IF ~h.got
            THEN /\ Raise("ConnectionError", heard)
                 /\ remote' = Learn(remote, head, h)
                 /\ served' = Spent(head, h, served)
                 /\ UNCHANGED <<tree, fs>>
            ELSE IF h.clen = <<>>
            THEN \* int(None)
                 /\ Raise("TypeError", heard)
                 /\ remote' = Learn(remote, head, h)
                 /\ served' = Spent(head, h, served)
                 /\ UNCHANGED <<tree, fs>>
            ELSE \E current \in Current(fs, f.path, h.clen[1]) :
                   IF current
                   THEN /\ tree' = SetStatus(n, "updated")
                        /\ remote' = Learn(remote, head, h)
                        /\ served' = Spent(head, h, served)
                        /\ log' = log \o heard
                        /\ stack' = Resume
                        /\ UNCHANGED <<pc, fs>>
                   ELSE \E r \in Answers(get, FileResponses, Spent(head, h, served)) :
                          /\ remote' = Learn(Learn(remote, head, h), get, r)
                          /\ served' = Spent(get, r, Spent(head, h, served))
                          /\ IF ~r.got
                             THEN /\ Raise("ConnectionError", got)
                                  /\ UNCHANGED <<tree, fs>>
                             ELSE IF ~GetOk(r)
                             THEN /\ tree' = SetStatus(n, "error")
                                  /\ log' = log \o got
                                  /\ stack' = Resume
                                  /\ UNCHANGED <<pc, fs>>
                             ELSE IF ~WriteOk(fs, f.path)
                             THEN /\ Raise("OSError", got)
                                  /\ UNCHANGED <<tree, fs>>
                             ELSE /\ fs' = write_bytes(fs, f.path, r.body)
                                  /\ tree' = SetStatus(n, "updated")
                                  /\ log' = log \o got \o <<Event("write", f.path)>>
                                  /\ stack' = Resume
                                  /\ UNCHANGED pc
    /\ UNCHANGED <<args, passes, sleeps, changed, steady>>

\* the children are replaced by the ones built in this pass
GrownPruned(n, done) ==
    LET made == {Append(n, done.news[i].key) : i \in 1..Len(done.news)}
    IN [m \in DOMAIN tree \cup made |->
            IF m = n
            THEN [tree[n] EXCEPT !.status = "updating",
                                 !.children = [i \in 1..Len(done.news) |-> done.news[i].key]]
            ELSE IF m \in made
            THEN LET i == CHOOSE j \in 1..Len(done.news) : Append(n, done.news[j].key) = m
                 IN done.news[i].obj
            ELSE tree[m]]

\* the tree once Dir n has processed its page: n is 'updating', its
\* children are the keys, and the objects built are in the tree
Grown(n, done) ==
    LET made == {Append(n, done.news[i].key) : i \in 1..Len(done.news)}
    IN [m \in DOMAIN tree \cup made |->
            IF m = n
            THEN [tree[n] EXCEPT !.status = "updating", !.children = done.keys]
            ELSE IF m \in made
            THEN LET i == CHOOSE j \in 1..Len(done.news) : Append(n, done.news[j].key) = m
                 IN done.news[i].obj
            ELSE tree[m]]

\* Dir.update() up to its loop over the children: the listing GET, the
\* local directory, the anchors
DirUpdate(n) ==
    /\ n \in Callee
    /\ tree[n].kind = "Dir"
    /\ LET d == tree[n]
           get == <<"GET", d.url>>
           got == <<Called(n), Event("GET", d.url)>>
       IN \E r \in Answers(get, PageResponses, served) :
            /\ remote' = Learn(remote, get, r)
            /\ served' = Spent(get, r, served)
            /\ IF ~r.got
               THEN /\ tree' = SetStatus(n, "updating")
                    /\ Raise("ConnectionError", got)
                    /\ UNCHANGED fs
               ELSE IF ~PageOk(r)
               THEN /\ tree' = SetStatus(n, "error")
                    /\ log' = log \o got
                    /\ stack' = Resume
                    /\ pc' = IF stack = <<>> THEN "back" ELSE pc
                    /\ UNCHANGED fs
               ELSE IF ~Exists(fs, d.path) /\ ~MkdirOk(fs, d.path)
               THEN /\ tree' = SetStatus(n, "updating")
                    /\ Raise("OSError", got)
                    /\ UNCHANGED fs
               ELSE /\ fs' = IF Exists(fs, d.path) THEN fs ELSE mkdir_p(fs, d.path)
                    /\ tree' = Grown(n, ProcessTree(d, r.links, d.children, <<>>))
                    /\ log' = log \o got \o
                              (IF Exists(fs, d.path) THEN <<>>
                               ELSE <<Event("mkdir", d.path)>>)
                    /\ stack' = Append(stack, [node |-> n, i |-> 1])
                    /\ pc' = "run"
    /\ passes' = IF n = <<>> THEN passes + 1 ELSE passes
    /\ UNCHANGED <<args, sleeps, changed, steady>>

\* Dir.update(), after the last child: 'updated', back to the caller
DirReturn ==
    /\ pc = "run"
    /\ Callee = {}
    /\ tree' = SetStatus(Top.node, "updated")
    /\ stack' = IF Len(stack) = 1 THEN <<>>
                ELSE LET rest == SubSeq(stack, 1, Len(stack) - 1)
                     IN [rest EXCEPT ![Len(rest)].i = @ + 1]
    /\ pc' = IF Len(stack) = 1 THEN "back" ELSE "run"
    /\ UNCHANGED <<args, fs, remote, log, passes, sleeps, served, changed, steady>>

\* one step of an update() in progress
Step ==
    \/ \E n \in Callee : FileUpdate(n)
    \/ \E n \in Callee : DirUpdate(n)
    \/ DirReturn

-----------------------------------------------------------------------------
(* KeyboardInterrupt inside update(): the signal's handler runs between    *)
(* two bytecodes of the method, so the call ends with what it had done up  *)
(* to there.  A cut is what one such call leaves behind.                   *)

\* File.update() cut short: on entry; with the HEAD sent; with the HEAD
\* answered; with the GET sent; with the GET answered; inside write_bytes
\* (the file opened, so empty) or after it, before line 93
FileCuts(n) ==
    LET f == tree[n]
        head == <<"HEAD", f.url>>
        get == <<"GET", f.url>>
        heard == <<Called(n), Event("HEAD", f.url)>>
        got == heard \o <<Event("GET", f.url)>>
        Cut(events, m, used, files) ==
            [events |-> events, tree |-> tree, remote |-> m, served |-> used, fs |-> files]
        AfterGet(h, r) ==
            LET m == Learn(Learn(remote, head, h), get, r)
                used == Spent(get, r, Spent(head, h, served))
            IN {Cut(got, m, used, fs)}
                 \cup IF GetOk(r) /\ WriteOk(fs, f.path)
                      THEN {Cut(got \o <<Event("write", f.path)>>, m, used,
                                write_bytes(fs, f.path, data)) : data \in {<<>>, r.body}}
                      ELSE {}
        AfterHead(h) ==
            LET m == Learn(remote, head, h)
                used == Spent(head, h, served)
            IN {Cut(heard, m, used, fs)}
                 \cup IF h.clen # <<>> /\ FALSE \in Current(fs, f.path, h.clen[1])
                      THEN {Cut(got, m, used, fs)}
                             \cup UNION {AfterGet(h, r) :
                                           r \in {x \in Answers(get, FileResponses, used) : x.got}}
                      ELSE {}
    IN {Cut(<<Called(n)>>, remote, served, fs), Cut(heard, remote, served, fs)}
         \cup UNION {AfterHead(h) : h \in {x \in Answers(head, HeadResponses, served) : x.got}}

\* Dir.update() cut short: on entry; after line 110; with the listing GET
\* sent; with it answered; after the directory is made, in or after the
\* loop over the anchors (the first k of them processed)
DirCuts(n) ==
    LET d == tree[n]
        get == <<"GET", d.url>>
        got == <<Called(n), Event("GET", d.url)>>
        Cut(events, objs, m, used, files) ==
            [events |-> events, tree |-> objs, remote |-> m, served |-> used, fs |-> files]
        AfterGet(r) ==
            LET m == Learn(remote, get, r)
                used == Spent(get, r, served)
            IN {Cut(got, SetStatus(n, "updating"), m, used, fs)}
                 \cup IF PageOk(r) /\ (Exists(fs, d.path) \/ MkdirOk(fs, d.path))
                      THEN {Cut(got \o (IF Exists(fs, d.path) THEN <<>>
                                        ELSE <<Event("mkdir", d.path)>>),
                                Grown(n, ProcessTree(d, SubSeq(r.links, 1, k), d.children, <<>>)),
                                m, used,
                                IF Exists(fs, d.path) THEN fs ELSE mkdir_p(fs, d.path)) :
                              k \in 0..Len(r.links)}
                      ELSE {}
    IN {Cut(<<Called(n)>>, tree, remote, served, fs),
        Cut(<<Called(n)>>, SetStatus(n, "updating"), remote, served, fs),
        Cut(got, SetStatus(n, "updating"), remote, served, fs)}
         \cup UNION {AfterGet(r) : r \in {x \in Answers(get, PageResponses, served) : x.got}}

\* the callee's update() ends in KeyboardInterrupt, which no update()
\* catches: it leaves every activation
Cutting(cut) ==
    /\ tree' = cut.tree
    /\ fs' = cut.fs
    /\ remote' = cut.remote
    /\ served' = cut.served
    /\ Raise("KeyboardInterrupt", cut.events)
    /\ UNCHANGED <<args, sleeps, changed, steady>>

FileInterrupted(n) ==
    /\ n \in Callee
    /\ tree[n].kind = "File"
    /\ \E cut \in FileCuts(n) : Cutting(cut)
    /\ UNCHANGED passes

DirInterrupted(n) ==
    /\ n \in Callee
    /\ tree[n].kind = "Dir"
    /\ \E cut \in DirCuts(n) : Cutting(cut)
    /\ passes' = IF n = <<>> THEN passes + 1 ELSE passes

-----------------------------------------------------------------------------
(* The remote, and a caller that keeps the tree. *)

NoRemote == [r \in {} |-> NoResponse]

\* the served tree changes while no update() is running: every later
\* request may get a new answer
RemoteChange ==
    /\ pc \in {"new", "back", "sleep"}
    /\ remote # NoRemote
    /\ remote' = NoRemote
    /\ changed' = TRUE
    /\ UNCHANGED <<pc, args, tree, stack, fs, log, passes, sleeps, served, steady>>

\* every File's local path is a regular file of the size its HEAD declares
Sized ==
    \A n \in DOMAIN tree :
        tree[n].kind = "File" =>
            /\ Exists(fs, tree[n].path)
            /\ fs[tree[n].path].kind = "file"
            /\ <<"HEAD", tree[n].url>> \in DOMAIN remote
            /\ remote[<<"HEAD", tree[n].url>>].got
            /\ remote[<<"HEAD", tree[n].url>>].clen = <<Len(fs[tree[n].path].data)>>

\* the caller calls update() on the root Dir.  steady.same: the call
\* follows a pass that left every node 'updated', and the remote has not
\* changed since that pass began; steady.sized: Sized holds at the call
Update ==
    /\ pc \in {"new", "back"}
    /\ passes < MaxPasses
    /\ pc' = "call"
    /\ log' = <<>>
    /\ steady' = [same |-> pc = "back" /\ AllUpdated /\ ~changed, sized |-> Sized]
    /\ changed' = FALSE
    /\ UNCHANGED <<args, tree, stack, fs, remote, passes, sleeps, served>>

\* sync has checked its arguments and built the root Dir:
\* d = Dir(url, path, ignore, session), the path a directory
Init ==
    /\ pc = "new"
    /\ args \in [url : {RootUrl}, path : {RootPath}, loop : {0}, ignore : IgnoreArgs]
    /\ tree = [n \in {<<>>} |-> DirInit(args.url, args.path, args.ignore)]
    /\ stack = <<>>
    /\ fs \in {f \in StartFs : IsDir(f, args.path)}
    /\ remote = NoRemote
    /\ log = <<>>
    /\ passes = 0
    /\ sleeps = 0
    /\ served = 0
    /\ changed = FALSE
    /\ steady = [same |-> FALSE, sized |-> FALSE]

Next == Update \/ Step \/ RemoteChange

Spec == Init /\ [][Next]_vars

-----------------------------------------------------------------------------
(* sync(url, path, loop, ignore). *)

\* the values of --loop
Loops == {-1, 0, 2}

NoTree == [n \in {} |-> FileInit(<<>>, <<>>)]

SyncInit ==
    /\ pc = "entry"
    /\ args \in [url : {RootUrl}, path : {RootPath}, loop : Loops, ignore : IgnoreArgs]
    /\ tree = NoTree
    /\ stack = <<>>
    /\ fs \in StartFs
    /\ remote = NoRemote
    /\ log = <<>>
    /\ passes = 0
    /\ sleeps = 0
    /\ served = 0
    /\ changed = FALSE
    /\ steady = [same |-> FALSE, sized |-> FALSE]

\* sync, up to its call of d.update(): the two checks, the root Dir
SyncStart ==
    /\ pc = "entry"
    /\ IF args.loop < 0 \/ ~IsDir(fs, args.path)
       THEN /\ pc' = "raised"
            /\ log' = <<Raised("ValueError")>>
            /\ UNCHANGED tree
       ELSE /\ tree' = [n \in {<<>>} |-> DirInit(args.url, args.path, args.ignore)]
            /\ pc' = "call"
            /\ log' = <<>>
    /\ UNCHANGED <<args, stack, fs, remote, passes, sleeps, served, changed, steady>>

\* sync, after d.update(): return when loop is 0, else enter the loop
SyncAfter ==
    /\ pc = "back"
    /\ pc' = IF args.loop = 0 THEN "done" ELSE "sleep"
    /\ UNCHANGED <<args, tree, stack, fs, remote, log, passes, sleeps, served, changed, steady>>

\* sync, the loop: time.sleep(loop) returns and the loop goes round
SyncSleep ==
    /\ pc = "sleep"
    /\ sleeps < MaxSleeps
    /\ sleeps' = sleeps + 1
    /\ UNCHANGED <<pc, args, tree, stack, fs, remote, log, passes, served, changed, steady>>

\* sync, the loop: KeyboardInterrupt in time.sleep(loop); break, return
SyncInterrupt ==
    /\ pc = "sleep"
    /\ pc' = "done"
    /\ UNCHANGED <<args, tree, stack, fs, remote, log, passes, sleeps, served, changed, steady>>

\* KeyboardInterrupt outside the try and between two calls of update():
\* it leaves sync as an exception.  In the loop the try covers the call of
\* time.sleep alone: the jump back of `while True` (line 62), once a sleep
\* has returned, is outside it
SyncAbort ==
    /\ \/ pc \in {"entry", "call", "run", "back"}
       \/ pc = "sleep" /\ sleeps >= 1
    /\ Raise("KeyboardInterrupt", <<>>)
    /\ UNCHANGED <<args, tree, fs, remote, passes, sleeps, served, changed, steady>>

SyncNext ==
    \/ SyncStart
    \/ Step
    \/ \E n \in Callee : FileInterrupted(n)
    \/ \E n \in Callee : DirInterrupted(n)
    \/ SyncAfter
    \/ SyncSleep
    \/ SyncInterrupt
    \/ SyncAbort
    \/ RemoteChange

SyncSpec == SyncInit /\ [][SyncNext]_vars

-----------------------------------------------------------------------------
(* What the claims are stated with. *)

HeadOf(n) == <<"HEAD", tree[n].url>>
GetOf(n) == <<"GET", tree[n].url>>

FileNodes == {n \in DOMAIN tree : tree[n].kind = "File"}
DirNodes == {n \in DOMAIN tree : tree[n].kind = "Dir"}

\* the name holds one of the patterns given to sync, whatever the case
Ignored(text) ==
    \E i \in 1..Len(args.ignore) : Contains(Lower(text), Lower(args.ignore[i]))

\* the events the step adds to the log begin with these
Did(events) ==
    /\ Len(log') >= Len(log) + Len(events)
    /\ SubSeq(log', 1, Len(log)) = log
    /\ SubSeq(log', Len(log) + 1, Len(log) + Len(events)) = events

\* the log ends with these events
Ends(events) ==
    /\ Len(log) >= Len(events)
    /\ SubSeq(log, Len(log) - Len(events) + 1, Len(log)) = events

HeadEvents(n) == <<Called(n), Event("HEAD", tree[n].url)>>
GetEvents(n) == HeadEvents(n) \o <<Event("GET", tree[n].url)>>
PageEvents(n) == <<Called(n), Event("GET", tree[n].url)>>

\* the current pass has not touched the local filesystem
NoFsEvents == \A i \in 1..Len(log) : log[i].ev \notin {"mkdir", "write"}

-----------------------------------------------------------------------------
(* C1.  With loop > 0, sync calls update() on the root again after every  *)
(* sleep: once update() has been entered, the calls of update() are one    *)
(* more than the sleeps that have returned.                                *)
C1_SleepThenUpdate ==
    (args.loop > 0 /\ pc \in {"run", "back", "sleep", "done"})
        => passes = sleeps + 1

-----------------------------------------------------------------------------
(* C2.  After one pass in which every request succeeded (every response    *)
(* arrived, every GET gave 200 and a body of the declared length), every   *)
(* file anchor of every fetched page whose name holds no ignore pattern    *)
(* and whose HEAD carries a content length is a local file of that size.   *)
Succeeded(req) ==
    /\ remote[req].got
    /\ req[1] = "GET" => remote[req].code = 200
    /\ (req[1] = "GET" /\ <<"HEAD", req[2]>> \in DOMAIN remote
            /\ remote[<<"HEAD", req[2]>>].got /\ "body" \in DOMAIN remote[req])
        => remote[<<"HEAD", req[2]>>].clen = <<Len(remote[req].body)>>

C2_EveryRemoteFileMirrored ==
    (pc = "back" /\ passes = 1 /\ ~changed /\ \A req \in DOMAIN remote : Succeeded(req))
        => \A n \in DirNodes :
             LET page == remote[GetOf(n)].links
             IN \A i \in 1..Len(page) :
                  LET head == <<"HEAD", UrlJoin(tree[n].url, page[i].href)>>
                      path == PathJoin(tree[n].path, page[i].text)
                  IN (/\ ~EndsWith(page[i].text, <<"/">>)
                      /\ ~Ignored(page[i].text)
                      /\ head \in DOMAIN remote => remote[head].clen # <<>>)
                     => /\ head \in DOMAIN remote
                        /\ Exists(fs, path)
                        /\ fs[path].kind = "file"
                        /\ remote[head].clen = <<Len(fs[path].data)>>

-----------------------------------------------------------------------------
(* C3.  A File whose local file exists with the size its HEAD declares:    *)
(* update() issues the HEAD and nothing else, leaves the filesystem        *)
(* alone, sets the status to 'updated' and returns to the parent's loop.   *)
C3_CurrentFileOnlyHead ==
    [][\A n \in Callee :
          (/\ tree[n].kind = "File"
           /\ log' # log
           /\ Exists(fs, tree[n].path)
           /\ fs[tree[n].path].kind = "file"
           /\ remote'[HeadOf(n)].got
           /\ remote'[HeadOf(n)].clen = <<Len(fs[tree[n].path].data)>>)
          => /\ log' = log \o HeadEvents(n)
             /\ fs' = fs
             /\ tree' = SetStatus(n, "updated")
             /\ pc' = "run"
             /\ stack' = Resume]_vars

C3_Witness ==
    \E n \in FileNodes :
        /\ Ends(HeadEvents(n))
        /\ tree[n].status = "updated"
        /\ Exists(fs, tree[n].path)
        /\ fs[tree[n].path].kind = "file"
        /\ HeadOf(n) \in DOMAIN remote
        /\ remote[HeadOf(n)].clen = <<Len(fs[tree[n].path].data)>>

-----------------------------------------------------------------------------
(* C4, as claimed.  A pass that follows a pass that left every node        *)
(* 'updated', the remote unchanged, does not touch the filesystem and      *)
(* ends with every node 'updated'.                                         *)
C4_UnchangedRemoteNoWrites ==
    steady.same => /\ NoFsEvents
                   /\ pc \in {"back", "raised"} => AllUpdated

(* C4, amended.  The same, when moreover every File's local file had the   *)
(* size its HEAD declares as the second pass began.                        *)
C4_SettledMirrorNoWrites ==
    (steady.same /\ steady.sized)
        => /\ NoFsEvents
           /\ pc \in {"back", "raised"} => AllUpdated

C4_Witness ==
    /\ steady.same
    /\ steady.sized
    /\ pc = "back"
    /\ passes = 2
    /\ \E n \in FileNodes : Len(n) = 2
    /\ \E i \in 1..Len(log) : log[i].ev = "HEAD"

-----------------------------------------------------------------------------
(* C5.  One pass of Dir n over a page it fetched with status 200.          *)

\* the step is Dir n's update() with a page that was parsed
Parsed(n) ==
    /\ tree[n].kind = "Dir"
    /\ Did(PageEvents(n))
    /\ pc' = "run"
    /\ Len(stack') = Len(stack) + 1

\* neither anchor i nor a later one adds a child: a later name that is a
\* child was one before the pass, or is the name of an anchor before i
NoneFrom(n, page, i) ==
    \A j \in i..Len(page) :
        page[j].text \in Range(tree'[n].children)
            => \/ page[j].text \in Range(tree[n].children)
               \/ \E k \in 1..(i - 1) : page[k].text = page[j].text

\* the anchor's text starts with ".."
Dotted(link) == StartsWith(link.text, <<".", ".">>)

\* every anchor before i that is no parent link (and is not itself
\* ignored) is a child after the pass
AllBefore(n, page, i) ==
    \A k \in 1..(i - 1) :
        (~Dotted(page[k]) /\ ~Ignored(page[k].text))
            => /\ page[k].text \in Range(tree'[n].children)
               /\ Append(n, page[k].text) \in DOMAIN tree'

(* C5, as claimed: this holds at every anchor whose name holds a pattern.  *)
C5_EveryIgnoredAnchorCuts ==
    [][\A n \in Callee :
          Parsed(n) =>
            LET page == remote'[GetOf(n)].links
            IN \A i \in 1..Len(page) :
                 Ignored(page[i].text)
                    => NoneFrom(n, page, i) /\ AllBefore(n, page, i)]_vars

(* C5, amended: it holds at the first anchor whose name holds a pattern    *)
(* and does not start with "..".                                           *)
C5_FirstIgnoredAnchorCuts ==
    [][\A n \in Callee :
          Parsed(n) =>
            LET page == remote'[GetOf(n)].links
            IN \A i \in 1..Len(page) :
                 (/\ Ignored(page[i].text)
                  /\ ~Dotted(page[i])
                  /\ \A k \in 1..(i - 1) : Ignored(page[k].text) => Dotted(page[k]))
                    => NoneFrom(n, page, i) /\ AllBefore(n, page, i)]_vars

\* a Dir has processed a page of three anchors, the second of them
\* ignored: the first is a child, the third, not ignored, is not
C5_Witness ==
    \E n \in DirNodes :
        /\ tree[n].status = "updating"
        /\ GetOf(n) \in DOMAIN remote
        /\ remote[GetOf(n)].got
        /\ remote[GetOf(n)].code = 200
        /\ LET page == remote[GetOf(n)].links
           IN /\ Len(page) = 3
              /\ ~Ignored(page[1].text)
              /\ Ignored(page[2].text)
              /\ ~Dotted(page[2])
              /\ ~Ignored(page[3].text)
              /\ page[1].text \in Range(tree[n].children)
              /\ page[3].text \notin Range(tree[n].children)

-----------------------------------------------------------------------------
(* C6.  Every Dir holds the patterns given to sync, lower-cased; no key of *)
(* any children mapping, and no component of a local path below the        *)
(* mirror root, holds one of the patterns, whatever the case.              *)
C6_NoIgnoredName ==
    /\ \A n \in DirNodes :
         /\ tree[n].ignore = [i \in 1..Len(args.ignore) |-> Lower(args.ignore[i])]
         /\ \A i \in 1..Len(tree[n].children) : ~Ignored(tree[n].children[i])
    /\ \A n \in DOMAIN tree : \A i \in 1..Len(n) : ~Ignored(n[i])
    /\ \A p \in DOMAIN fs :
         \A k \in (Len(args.path) + 1)..Len(p) : ~Ignored(p[k])

\* a Dir below the root has children and its page holds an ignored name
C6_Witness ==
    \E n \in DirNodes :
        /\ Len(n) >= 1
        /\ tree[n].children # <<>>
        /\ GetOf(n) \in DOMAIN remote
        /\ remote[GetOf(n)].got
        /\ \E i \in 1..Len(remote[GetOf(n)].links) :
             /\ Ignored(remote[GetOf(n)].links[i].text)
             /\ ~StartsWith(remote[GetOf(n)].links[i].text, <<".", ".">>)

-----------------------------------------------------------------------------
(* C7.  A HEAD response without a content length: update() of the File     *)
(* returns to the parent's loop with status 'error', after the HEAD alone, *)
(* the local filesystem as it was.                                         *)
C7_MissingLengthIsError ==
    [][\A n \in Callee :
          (/\ tree[n].kind = "File"
           /\ log' # log
           /\ remote'[HeadOf(n)].got
           /\ remote'[HeadOf(n)].clen = <<>>)
          => /\ pc' = "run"
             /\ stack' = Resume
             /\ tree' = SetStatus(n, "error")
             /\ log' = log \o HeadEvents(n)
             /\ fs' = fs]_vars

-----------------------------------------------------------------------------
(* C8.  A File's GET is answered with a status other than 200: update()    *)
(* returns to the parent's loop with status 'error', and the local         *)
(* filesystem is as it was.                                                *)
C8_FailedGetLeavesFile ==
    [][\A n \in Callee :
          (/\ tree[n].kind = "File"
           /\ Did(GetEvents(n))
           /\ remote'[GetOf(n)].got
           /\ remote'[GetOf(n)].code # 200)
          => /\ pc' = "run"
             /\ stack' = Resume
             /\ tree' = SetStatus(n, "error")
             /\ log' = log \o GetEvents(n)
             /\ fs' = fs]_vars

\* a File whose local file exists has just had its GET refused
C8_Witness ==
    \E n \in FileNodes :
        /\ Ends(GetEvents(n))
        /\ tree[n].status = "error"
        /\ GetOf(n) \in DOMAIN remote
        /\ remote[GetOf(n)].got
        /\ remote[GetOf(n)].code = 404
        /\ Exists(fs, tree[n].path)
        /\ fs[tree[n].path].data = <<"x">>

-----------------------------------------------------------------------------
(* C9.  A Dir's listing GET is answered with a status other than 200:      *)
(* update() sets that Dir's status to 'error' and returns (the root's, to  *)
(* its caller); no other object changes, no child is added, removed or     *)
(* updated, the local filesystem is as it was.                             *)
C9_FailedListingOnlyMarks ==
    [][\A n \in Callee :
          (/\ tree[n].kind = "Dir"
           /\ log' # log
           /\ remote'[GetOf(n)].got
           /\ remote'[GetOf(n)].code # 200)
          => /\ tree' = SetStatus(n, "error")
             /\ fs' = fs
             /\ log' = log \o PageEvents(n)
             /\ pc' = IF n = <<>> THEN "back" ELSE "run"
             /\ stack' = Resume]_vars

\* a Dir that has children from an earlier pass has just failed to list
C9_Witness ==
    \E n \in DirNodes :
        /\ Ends(PageEvents(n))
        /\ tree[n].status = "error"
        /\ GetOf(n) \in DOMAIN remote
        /\ remote[GetOf(n)].got
        /\ remote[GetOf(n)].code = 404
        /\ \E i \in 1..Len(tree[n].children) :
             tree[Append(n, tree[n].children[i])].status = "updated"

-----------------------------------------------------------------------------
(* C10.  A child's update() fails (its listing GET or its file GET is      *)
(* answered with a status other than 200, or its HEAD has no content       *)
(* length): the failure is recorded on that child alone and the parent's   *)
(* loop goes on to the next child.                                         *)
Fails(n) ==
    IF tree[n].kind = "Dir"
    THEN remote'[GetOf(n)].got /\ remote'[GetOf(n)].code # 200
    ELSE /\ remote'[HeadOf(n)].got
         /\ \/ remote'[HeadOf(n)].clen = <<>>
            \/ /\ Did(GetEvents(n))
               /\ remote'[GetOf(n)].got
               /\ remote'[GetOf(n)].code # 200

C10_ChildFailureStaysLocal ==
    [][\A n \in Callee :
          (n # <<>> /\ log' # log /\ Fails(n))
          => /\ pc' = "run"
             /\ stack' = Resume
             /\ tree' = SetStatus(n, "error")]_vars

-----------------------------------------------------------------------------
(* What a step of sync is. *)

\* the step is a KeyboardInterrupt that leaves sync as an exception
Interrupts ==
    /\ Len(log') = Len(log) + 1
    /\ log'[Len(log')] = Raised("KeyboardInterrupt")

\* the local path given to sync is an existing directory
PathIsDirectory == args.path \in DOMAIN fs /\ fs[args.path].kind = "dir"

-----------------------------------------------------------------------------
(* C11.  sync called with a negative loop, or with a path that is missing  *)
(* or not a directory, raises ValueError; until then it has sent no        *)
(* request, built no object and changed nothing on the local filesystem.   *)
C11_BadArgumentsFailFirst ==
    [][(/\ pc = "entry"
        /\ args.loop < 0 \/ ~PathIsDirectory
        /\ ~Interrupts)
       => /\ pc' = "raised"
          /\ log' = <<Raised("ValueError")>>
          /\ fs' = fs
          /\ remote' = NoRemote
          /\ served' = 0
          /\ tree' = NoTree
          /\ passes' = 0]_vars

\* sync has raised ValueError for a path that is a regular file
C11_Witness ==
    /\ pc = "raised"
    /\ log = <<Raised("ValueError")>>
    /\ args.loop >= 0
    /\ Exists(fs, args.path)
    /\ fs[args.path].kind = "file"

-----------------------------------------------------------------------------
(* C12.  sync called with loop = 0 and an existing directory, every        *)
(* request answered and no interrupt: update() is called on the root       *)
(* once, sync never sleeps, and it does not end in an exception.           *)
C12_OnePassThenReturn ==
    (/\ args.loop = 0
     /\ PathIsDirectory
     /\ \A req \in DOMAIN remote : remote[req].got
     /\ \A i \in 1..Len(log) : log[i] # Raised("KeyboardInterrupt"))
    => /\ pc \in {"entry", "call", "run", "back", "done"}
       /\ sleeps = 0
       /\ passes = IF pc \in {"entry", "call"} THEN 0 ELSE 1

-----------------------------------------------------------------------------
(* C13.  sync called with loop > 0 and an existing directory, nothing but  *)
(* interrupts going wrong: once the root's update() has begun, sync never  *)
(* ends in an exception, and when it has ended no update() is left         *)
(* unfinished.                                                             *)
C13_InterruptReturnsCleanly ==
    (/\ args.loop > 0
     /\ PathIsDirectory
     /\ <<>> \in DOMAIN tree
     /\ tree[<<>>].status # "pending"
     /\ \A i \in 1..Len(log) :
          log[i].ev = "raise" => log[i].exc = "KeyboardInterrupt")
    => /\ pc # "raised"
       /\ pc = "done" => /\ stack = <<>>
                         /\ \A n \in DirNodes : tree[n].status # "updating"

-----------------------------------------------------------------------------
(* C14.  No step removes an object from the tree or a name from a Dir's    *)
(* children: the children after the step are the children before it,       *)
(* in the same order, followed by the names the step has added.            *)
C14_ChildrenOnlyGrow ==
    [][\A n \in DirNodes :
          /\ n \in DOMAIN tree'
          /\ tree'[n].kind = "Dir"
          /\ Len(tree'[n].children) >= Len(tree[n].children)
          /\ SubSeq(tree'[n].children, 1, Len(tree[n].children)) = tree[n].children
          /\ \A i \in 1..Len(tree[n].children) :
                Append(n, tree[n].children[i]) \in DOMAIN tree']_vars

\* in a second pass a Dir has processed a page that no longer lists one
\* of its children
C14_Witness ==
    \E n \in DirNodes :
        /\ passes = 2
        /\ tree[n].status = "updating"
        /\ Ends(PageEvents(n))
        /\ GetOf(n) \in DOMAIN remote
        /\ remote[GetOf(n)].got
        /\ remote[GetOf(n)].code = 200
        /\ \E i \in 1..Len(tree[n].children) :
             \A j \in 1..Len(remote[GetOf(n)].links) :
                remote[GetOf(n)].links[j].text # tree[n].children[i]

-----------------------------------------------------------------------------
(* C15.  A pass has ended, every request was answered, no filesystem       *)
(* operation failed: for every Dir whose listing was fetched with status   *)
(* 200 in this pass, the calls of update() on its children made in this    *)
(* pass are one per child, in the order of the children mapping.           *)

\* the children of Dir n on which update() was called in this pass, in order
UpdatedChildren(n) ==
    LET IsChildCall(e) ==
            /\ e.ev = "update"
            /\ Len(e.node) = Len(n) + 1
            /\ SubSeq(e.node, 1, Len(n)) = n
        calls == SelectSeq(log, IsChildCall)
    IN [i \in 1..Len(calls) |-> calls[i].node[Len(n) + 1]]

\* Dir n's listing was fetched with status 200 in this pass
Listed(n) ==
    /\ \E i \in 1..Len(log) : log[i] = Called(n)
    /\ GetOf(n) \in DOMAIN remote
    /\ remote[GetOf(n)].got
    /\ remote[GetOf(n)].code = 200

C15_EveryChildUpdatedInOrder ==
    (/\ pc \in {"back", "raised"}
     /\ ~changed
     /\ \A req \in DOMAIN remote : remote[req].got
     /\ \A i \in 1..Len(log) :
          log[i].ev = "raise" => log[i].exc = "TypeError")
    => \A n \in DirNodes :
         Listed(n) => UpdatedChildren(n) = tree[n].children

-----------------------------------------------------------------------------
(* C16.  A Dir processes a page: every object that was in the tree, the    *)
(* children of this Dir and all below them, is what it was (kind, url,     *)
(* path, status, children), whatever the hrefs of the page; the Dir itself *)
(* keeps its url, path and patterns; an object is built only for a name    *)
(* that was not a child, from the first anchor of that name.               *)

\* the first anchor of the page with this text
FirstNamed(page, text) ==
    page[CHOOSE j \in 1..Len(page) :
            /\ page[j].text = text
            /\ \A k \in 1..(j - 1) : page[k].text # text]

C16_ExistingChildReused ==
    [][\A n \in Callee :
          Parsed(n) =>
            LET page == remote'[GetOf(n)].links
            IN /\ \A m \in DOMAIN tree \ {n} :
                     m \in DOMAIN tree' /\ tree'[m] = tree[m]
               /\ tree'[n] = [tree[n] EXCEPT !.status = "updating",
                                             !.children = tree'[n].children]
               /\ \A m \in DOMAIN tree' \ DOMAIN tree :
                     /\ Len(m) = Len(n) + 1
                     /\ SubSeq(m, 1, Len(n)) = n
                     /\ m[Len(m)] \notin Range(tree[n].children)
                     /\ tree'[m] = NewChild(tree[n], FirstNamed(page, m[Len(m)]))]_vars

\* in a second pass a Dir has processed a page whose anchor "a" has
\* another href than the one its child "a" was built from
C16_Witness ==
    \E n \in DirNodes :
        /\ passes = 2
        /\ tree[n].status = "updating"
        /\ Ends(PageEvents(n))
        /\ GetOf(n) \in DOMAIN remote
        /\ remote[GetOf(n)].got
        /\ remote[GetOf(n)].code = 200
        /\ \E j \in 1..Len(remote[GetOf(n)].links) :
             LET link == remote[GetOf(n)].links[j]
             IN /\ link.text \in Range(tree[n].children)
                /\ tree[Append(n, link.text)].status = "updated"
                /\ tree[Append(n, link.text)].url # UrlJoin(tree[n].url, link.href)

-----------------------------------------------------------------------------
(* C17.  A Dir's listing GET is answered with status 200: when update()    *)
(* goes on to its children, the Dir's local path is a directory (and       *)
(* update() does go on: making the directory does not fail).               *)
C17_ListedDirExistsLocally ==
    [][\A n \in Callee :
          (/\ tree[n].kind = "Dir"
           /\ Did(PageEvents(n))
           /\ remote'[GetOf(n)].got
           /\ remote'[GetOf(n)].code = 200)
          => /\ pc' = "run"
             /\ tree[n].path \in DOMAIN fs'
             /\ fs'[tree[n].path].kind = "dir"]_vars

-----------------------------------------------------------------------------
(* C18.  update() has been called on a File in this pass and control is    *)
(* back with its caller, its HEAD (and its GET, if sent) answered and no   *)
(* filesystem operation having failed: the File is 'updated' or 'error',   *)
(* whether or not the HEAD carried a content length.                       *)
C18_FileLeavesPending ==
    \A n \in FileNodes :
        (/\ \E i \in 1..Len(log) : log[i] = Called(n)
         /\ HeadOf(n) \in DOMAIN remote
         /\ remote[HeadOf(n)].got
         /\ GetOf(n) \in DOMAIN remote => remote[GetOf(n)].got
         /\ \A i \in 1..Len(log) :
              log[i].ev = "raise" => log[i].exc = "TypeError")
        => tree[n].status \in {"updated", "error"}

-----------------------------------------------------------------------------
(* C19.  A Dir processes a page: no anchor whose text starts with ".."     *)
(* becomes an object, and such an anchor neither ends the processing nor   *)
(* counts as an ignored one: every other anchor that no ignored anchor     *)
(* (one not starting with "..") precedes is a child afterwards.            *)
C19_ParentLinkSkippedAlone ==
    [][\A n \in Callee :
          Parsed(n) =>
            LET page == remote'[GetOf(n)].links
            IN /\ \A m \in DOMAIN tree' :
                     \A k \in 1..Len(m) : ~StartsWith(m[k], <<".", ".">>)
               /\ \A j \in 1..Len(page) :
                     (/\ ~Dotted(page[j])
                      /\ \A k \in 1..j : Dotted(page[k]) \/ ~Ignored(page[k].text))
                     => /\ page[j].text \in Range(tree'[n].children)
                        /\ Append(n, page[j].text) \in DOMAIN tree']_vars

\* a Dir has processed a page in which an anchor that starts with ".."
\* and holds a pattern comes before an anchor that became a child here
C19_Witness ==
    \E n \in DirNodes :
        /\ passes = 1
        /\ tree[n].status = "updating"
        /\ Ends(PageEvents(n))
        /\ GetOf(n) \in DOMAIN remote
        /\ remote[GetOf(n)].got
        /\ remote[GetOf(n)].code = 200
        /\ LET page == remote[GetOf(n)].links
           IN \E i, j \in 1..Len(page) :
                /\ i < j
                /\ Dotted(page[i])
                /\ Ignored(page[i].text)
                /\ page[j].text \in Range(tree[n].children)

-----------------------------------------------------------------------------
(* C20.  Every request answered, no filesystem operation failed: the Dirs  *)
(* with status 'updating' are exactly those whose update() is in progress  *)
(* (so none is, between passes and after the last one, however it ended).  *)
C20_UpdatingWhileInProgress ==
    (/\ \A req \in DOMAIN remote : remote[req].got
     /\ \A i \in 1..Len(log) :
          log[i].ev = "raise" => log[i].exc = "TypeError")
    => /\ \A i \in 1..Len(stack) : tree[stack[i].node].status = "updating"
       /\ \A n \in DirNodes :
            tree[n].status = "updating" => \E i \in 1..Len(stack) : stack[i].node = n

=============================================================================
